---- MODULE Spec2Model ----
(***************************************************************************)
(* Model of the rtsp2web relay: the RTSP ingester task (rtspclient.rs),    *)
(* the bounded broadcast channel of a stream (streamdef.rs), the WebSocket *)
(* subscriber sessions (websocketservice.rs) and the startup code that     *)
(* spawns the ingesters (main.rs).                                         *)
(***************************************************************************)
EXTENDS Integers, Sequences, FiniteSets, TLC

(***************************************************************************)
(* Results of the Rust functions.  A Result<Vec<u8>, Error> is a record    *)
(* with tag "Ok" or "Err"; a panic (unwrap of an Err, an index out of      *)
(* range, unreachable!()) is the tag "Panic".                              *)
(***************************************************************************)
Ok(v) == [tag |-> "Ok", val |-> v]

Err(e) == [tag |-> "Err", val |-> e]

Panic(e) == [tag |-> "Panic", val |-> e]

\* rtspclient.rs:33  const MARKER: [u8; 4] = [0, 0, 0, 1]
MARKER == <<0, 0, 0, 1>>

\* data[from..to] of Rust, on a 0-based position: the bytes from <= i < to.
Slice(data, from, to) == SubSeq(data, from + 1, to)

\* data[pos] of Rust (0-based); used only where pos < Len(data).
At(data, pos) == data[pos + 1]

\* u16::from_be_bytes([hi, lo])
u16_from_be_bytes(hi, lo) == hi * 256 + lo

\* u32::from_be_bytes([b0, b1, b2, b3])
u32_from_be_bytes(b) == ((b[1] * 256 + b[2]) * 256 + b[3]) * 256 + b[4]

(***************************************************************************)
(* avcc_to_annex_b: the loop runs while a whole 4-byte length can be read  *)
(* (`while let Ok(_) = read_exact`), so it ends, with success, as soon as  *)
(* fewer than 4 bytes are left.                                            *)
(***************************************************************************)
RECURSIVE avcc_loop(_, _, _)
avcc_loop(data, pos, nal_units) ==
    IF pos + 4 > Len(data)
    THEN Ok(nal_units)
    ELSE LET nal_length == u32_from_be_bytes(Slice(data, pos, pos + 4))
         IN  IF nal_length = 0
             THEN Err("NalLenghtParseError")
             ELSE IF pos + 4 + nal_length > Len(data)
                  THEN Err("UnexpectedEof")
                  ELSE avcc_loop(data, pos + 4 + nal_length,
                                 nal_units \o MARKER
                                           \o Slice(data, pos + 4, pos + 4 + nal_length))

\* the conversion with the start code written once, ahead of the loop
RECURSIVE avcc_loop_marker_once(_, _, _)
avcc_loop_marker_once(data, pos, nal_units) ==
    IF pos + 4 > Len(data)
    THEN Ok(nal_units)
    ELSE LET nal_length == u32_from_be_bytes(Slice(data, pos, pos + 4))
         IN  IF nal_length = 0
             THEN Err("NalLenghtParseError")
             ELSE IF pos + 4 + nal_length > Len(data)
                  THEN Err("UnexpectedEof")
                  ELSE avcc_loop_marker_once(data, pos + 4 + nal_length,
                                             nal_units \o Slice(data, pos + 4, pos + 4 + nal_length))

avcc_marker_once(data) == avcc_loop_marker_once(data, 0, MARKER)

avcc_to_annex_b(data) == avcc_loop(data, 0, <<>>)

\* parse_h264_config that does not step over numOfPictureParameterSets
parse_h264_config_no_skip(data) ==
    IF 7 >= Len(data)
    THEN Panic("index out of bounds")
    ELSE LET sps_len == u16_from_be_bytes(At(data, 6), At(data, 7))
             pos1    == 8
         IN  IF pos1 + sps_len > Len(data)
             THEN Err("Error decoding sps")
             ELSE LET cfg1 == MARKER \o Slice(data, pos1, pos1 + sps_len)
                      pos2 == pos1 + sps_len
                  IN  IF pos2 + 1 >= Len(data)
                      THEN Panic("index out of bounds")
                      ELSE LET pps_len == u16_from_be_bytes(At(data, pos2), At(data, pos2 + 1))
                               pos3    == pos2 + 2
                           IN  IF pos3 + pps_len > Len(data)
                               THEN Err("Error decoding pps")
                               ELSE Ok(cfg1 \o MARKER \o Slice(data, pos3, pos3 + pps_len))

(***************************************************************************)
(* parse_h264_config: data[pos] and data[pos + 1] are indexed without a    *)
(* length check (a panic when out of range); only the two body slices are  *)
(* checked against data.len().                                             *)
(***************************************************************************)
parse_h264_config(data) ==
    IF 7 >= Len(data)
    THEN Panic("index out of bounds")
    ELSE LET sps_len == u16_from_be_bytes(At(data, 6), At(data, 7))
             pos1    == 8
         IN  IF pos1 + sps_len > Len(data)
             THEN Err("Error decoding sps")
             ELSE LET cfg1 == MARKER \o Slice(data, pos1, pos1 + sps_len)
                      pos2 == pos1 + sps_len + 1
                  IN  IF pos2 + 1 >= Len(data)
                      THEN Panic("index out of bounds")
                      ELSE LET pps_len == u16_from_be_bytes(At(data, pos2), At(data, pos2 + 1))
                               pos3    == pos2 + 2
                           IN  IF pos3 + pps_len > Len(data)
                               THEN Err("Error decoding pps")
                               ELSE Ok(cfg1 \o MARKER \o Slice(data, pos3, pos3 + pps_len))

(***************************************************************************)
(* parse_h265_config: the inner loop over the NAL units of one array, then *)
(* the outer loop over the arrays.  Both return the position reached.      *)
(***************************************************************************)
RECURSIVE h265_nalus(_, _, _, _)
h265_nalus(data, pos, num_nalus, cfg) ==
    IF num_nalus = 0
    THEN [tag |-> "Ok", val |-> cfg, pos |-> pos]
    ELSE IF pos + 2 > Len(data)
         THEN [tag |-> "Err", val |-> "Error decoding H.265 cfg: invalid NALU length", pos |-> pos]
         ELSE LET nal_unit_length == u16_from_be_bytes(At(data, pos), At(data, pos + 1))
                  p == pos + 2
              IN  IF p + nal_unit_length > Len(data)
                  THEN [tag |-> "Err", val |-> "Error decoding H.265 cfg: invalid NALU", pos |-> p]
                  ELSE h265_nalus(data, p + nal_unit_length, num_nalus - 1,
                                  cfg \o MARKER \o Slice(data, p, p + nal_unit_length))

RECURSIVE h265_arrays(_, _, _, _)
h265_arrays(data, pos, num_arrays, cfg) ==
    IF num_arrays = 0
    THEN Ok(cfg)
    ELSE IF pos + 3 > Len(data)
         THEN Err("Error decoding H.265 cfg: buffer too short")
         ELSE LET num_nalus == u16_from_be_bytes(At(data, pos + 1), At(data, pos + 2))
                  nalus == h265_nalus(data, pos + 3, num_nalus, cfg)
              IN  IF nalus.tag = "Ok"
                  THEN h265_arrays(data, nalus.pos, num_arrays - 1, nalus.val)
                  ELSE Err(nalus.val)

parse_h265_config(data) ==
    IF 22 >= Len(data)
    THEN Panic("index out of bounds")
    ELSE h265_arrays(data, 23, At(data, 22), <<>>)

\* codec.starts_with("avc1") / ("hvc1"): the codec is kept as its family.
parse_codec_config(video_params) ==
    CASE video_params.codec = "avc1" -> parse_h264_config(video_params.extra_data)
      [] video_params.codec = "hvc1" -> parse_h265_config(video_params.extra_data)
      [] OTHER -> Err("Unsupported codec")

(***************************************************************************)
(* process_video_frame, up to the send: the metadata and the payload of    *)
(* the DataFrame, or the panic of one of the two unwrap() calls.           *)
(* serde_json's json!({...}) object is a map from keys to values: the key  *)
(* "type" is present only for a random-access point.                       *)
(***************************************************************************)
frame_metadata(m, video_params) ==
    LET base == [ts |-> m.ts * 1000, media |-> "video", codec |-> video_params.codec]
    IN  IF m.is_random_access_point
        THEN [ts |-> base.ts, media |-> base.media, codec |-> base.codec, type |-> "keyframe"]
        ELSE base

\* process_video_frame that puts the configuration prefix ahead of every frame
process_video_frame_prefix_always(m, video_params) ==
    LET cfg == parse_codec_config(video_params)
        nal_units == avcc_to_annex_b(m.data)
    IN  IF cfg.tag # "Ok"
        THEN Panic("unwrap of parse_codec_config")
        ELSE IF nal_units.tag # "Ok"
             THEN Panic("unwrap of avcc_to_annex_b")
             ELSE Ok([metadata |-> frame_metadata(m, video_params),
                      data     |-> cfg.val \o nal_units.val])

process_video_frame(m, video_params) ==
    LET cfg == IF m.is_random_access_point
               THEN parse_codec_config(video_params)
               ELSE Ok(<<>>)
        nal_units == avcc_to_annex_b(m.data)
    IN  IF cfg.tag # "Ok"
        THEN Panic("unwrap of parse_codec_config")
        ELSE IF nal_units.tag # "Ok"
             THEN Panic("unwrap of avcc_to_annex_b")
             ELSE Ok([metadata |-> frame_metadata(m, video_params),
                      data     |-> cfg.val \o nal_units.val])

\* t.parse::<Transport>(): retina accepts "tcp" and "udp".
transport_parse(t) == IF t \in {"tcp", "udp"} THEN Ok(t) ELSE Err("unknown transport")

(***************************************************************************)
(* Bounds of the model and constants of the program.                       *)
(***************************************************************************)
\* streamdef.rs:36  broadcast::channel::<DataFrame>(100)
Capacity == 100

MaxWorkers == 2

MaxSessions == 2

MaxFrames == 3

ChanStart == 99

ChanFrames == 101

LagFrames == 103

LagRead == 1

MaxPings == 2

MaxNals == 3

MaxStreamFrames == 2

MaxOutliveFrames == 2

Streams == {"/ws", "/cam"}

Workers == 1..MaxWorkers

Tasks == Workers \X Streams

Sessions == 1..MaxSessions

(***************************************************************************)
(* Inputs: access units as the demuxer yields them (AVCC framing) and the  *)
(* parameters of the video substream (codec family and extra-data).        *)
(***************************************************************************)
\* one NAL unit of two bytes, not a random-access point
AuDelta == [is_random_access_point |-> FALSE, data |-> <<0, 0, 0, 2, 65, 154>>]

\* one NAL unit of two bytes, a random-access point
AuKey == [is_random_access_point |-> TRUE, data |-> <<0, 0, 0, 2, 101, 136>>]

\* a partial body: length 5 followed by two bytes
AuTruncated == [is_random_access_point |-> FALSE, data |-> <<0, 0, 0, 5, 97, 136>>]

\* AVCDecoderConfigurationRecord with SPS 67 42 00 1E and PPS 68 CE 38 80
H264Record == <<1, 66, 0, 30, 255, 225, 0, 4, 103, 66, 0, 30, 1, 0, 4, 104, 206, 56, 128>>

H264Params == [codec |-> "avc1", extra_data |-> H264Record]

\* the same record cut inside the PPS body
H264CutParams == [codec |-> "avc1", extra_data |-> SubSeq(H264Record, 1, 17)]

\* HEVCDecoderConfigurationRecord: 22 header bytes, then numOfArrays = 0
H265Header == <<1, 1, 96, 0, 0, 0, 144, 0, 0, 0, 0, 0, 93, 240, 0, 252, 253, 248, 248, 0, 0, 15>>

H265NoArrayParams == [codec |-> "hvc1", extra_data |-> H265Header \o <<0>>]

\* numOfArrays = 2: one array with a 2-byte VPS, one with a 2-byte SPS
H265Params ==
    [codec |-> "hvc1",
     extra_data |-> H265Header \o <<2, 32, 0, 1, 0, 2, 64, 1, 33, 0, 1, 0, 2, 66, 1>>]

NoParams == [codec |-> "none", extra_data |-> <<>>]

NoResult == [tag |-> "None", val |-> ""]

(***************************************************************************)
(* State.                                                                  *)
(*  opts         the configuration: HTTP workers, transport option, paths  *)
(*  bound        what the environment may do: the sessions that may        *)
(*               connect, the items a demuxer yields, the inputs it draws  *)
(*  built        the workers whose application factory has run             *)
(*  pc           per task (worker, path): the position of run / run_inner  *)
(*  video_params per task: the parameters cloned after SETUP               *)
(*  r            per task: the result of run_inner                         *)
(*  teardown     per task: the outcome of await_teardown                   *)
(*  ret          per task: the value run returned                          *)
(*  stop         per task: the ctrl_c future of run_inner                  *)
(*  demuxed      per task: the number of items the demuxer has yielded     *)
(*  interrupted  the process has received the interrupt                    *)
(*  published    per path: every DataFrame sent, in order; the channel     *)
(*               retains the last Capacity of them                         *)
(*  count        per path: StreamsDef.count                                *)
(*  starts,stops per path: calls of started / stopped (history)            *)
(*  sstate       per session: idle, upgraded, attached, stopped            *)
(*  spath        per session: the path of the request                      *)
(*  next         per session: the receiver's next position                 *)
(*  sub_at       per session: the position at the resubscribe (history)    *)
(*  lags         per session: lag signals read                             *)
(*  wsout        per session: the outbound WebSocket messages (see wire)   *)
(*  input        the argument of a call of avcc_to_annex_b or of           *)
(*               parse_codec_config on its own (outside a task)            *)
(*  output       the value that call returned                              *)
(***************************************************************************)
VARIABLES opts, bound, built, pc, video_params, r, teardown, ret, stop, demuxed,
          interrupted, published, count, starts, stops,
          sstate, spath, next, sub_at, lags, wsout, input, output

taskvars == <<pc, video_params, r, teardown, ret, stop, demuxed>>

chanvars == <<published>>

sessvars == <<count, starts, stops, sstate, spath, next, sub_at, lags, wsout>>

callvars == <<input, output>>

vars == <<opts, bound, built, pc, video_params, r, teardown, ret, stop, demuxed,
          interrupted, published, count, starts, stops,
          sstate, spath, next, sub_at, lags, wsout, input, output>>

\* The count of a new StreamsDef.  (The field is used by started and stopped;
\* its declaration is not among the sources.)
count_new == 0

NoInput == <<>>

\* StreamsDef::new and the state before the server starts, for a given
\* configuration o and environment b.
InitState(o, b) ==
    /\ opts = o
    /\ bound = b
    /\ built = {}
    /\ pc = [t \in Tasks |-> "Unspawned"]
    /\ video_params = [t \in Tasks |-> NoParams]
    /\ r = [t \in Tasks |-> NoResult]
    /\ teardown = [t \in Tasks |-> "none"]
    /\ ret = [t \in Tasks |-> NoResult]
    /\ stop = [t \in Tasks |-> "unpolled"]
    /\ demuxed = [t \in Tasks |-> 0]
    /\ interrupted = FALSE
    /\ published = [p \in Streams |-> <<>>]
    /\ count = [p \in Streams |-> count_new]
    /\ starts = [p \in Streams |-> 0]
    /\ stops = [p \in Streams |-> 0]
    /\ sstate = [s \in Sessions |-> "idle"]
    /\ spath = [s \in Sessions |-> "/ws"]
    /\ next = [s \in Sessions |-> 0]
    /\ sub_at = [s \in Sessions |-> 0]
    /\ lags = [s \in Sessions |-> 0]
    /\ wsout = [s \in Sessions |-> <<>>]

InitWith(o, b) ==
    /\ InitState(o, b)
    /\ input = NoInput
    /\ output = NoResult

(***************************************************************************)
(* main: the application factory given to HttpServer::new runs once in     *)
(* every worker; each run spawns run(url, tx) for every registered path.   *)
(***************************************************************************)
AppFactory(w) ==
    /\ w \in 1..opts.workers
    /\ w \notin built
    /\ built' = built \cup {w}
    /\ pc' = [t \in Tasks |-> IF t[1] = w /\ t[2] \in opts.streams THEN "Init" ELSE pc[t]]
    /\ UNCHANGED <<opts, bound, callvars, video_params, r, teardown, ret, stop, demuxed,
                   interrupted, chanvars, sessvars>>

(***************************************************************************)
(* run_inner, one action per await point and outcome.  A step that ends    *)
(* run_inner with a result goes to the teardown of run ("Terminating"); a  *)
(* panic unwinds the task: run does not continue ("Panicked").             *)
(***************************************************************************)
\* The locals of run_inner (the session with its demuxer, video_params, the
\* ctrl_c future) are dropped when it returns or unwinds.
Returns(t, res) ==
    /\ pc' = [pc EXCEPT ![t] = "Terminating"]
    /\ r' = [r EXCEPT ![t] = res]
    /\ video_params' = [video_params EXCEPT ![t] = NoParams]
    /\ stop' = [stop EXCEPT ![t] = "dropped"]
    /\ demuxed' = [demuxed EXCEPT ![t] = 0]

\* a panic that ends the process (every task with it) instead of the one task
Panics_abort(t) ==
    /\ pc' = [x \in Tasks |-> IF x = t \/ pc[x] \notin {"Unspawned", "Done"}
                               THEN "Panicked" ELSE pc[x]]
    /\ r' = r
    /\ video_params' = [video_params EXCEPT ![t] = NoParams]
    /\ stop' = [stop EXCEPT ![t] = "dropped"]
    /\ demuxed' = [demuxed EXCEPT ![t] = 0]

\* A panic unwinds the task it happens in; the runtime catches it at the task
\* boundary, and the other tasks go on.
Panics(t) ==
    /\ pc' = [pc EXCEPT ![t] = "Panicked"]
    /\ r' = r
    /\ video_params' = [video_params EXCEPT ![t] = NoParams]
    /\ stop' = [stop EXCEPT ![t] = "dropped"]
    /\ demuxed' = [demuxed EXCEPT ![t] = 0]

\* the task is polled for the first time: ctrl_c() is created, DESCRIBE is sent
TaskStart(t) ==
    /\ pc[t] = "Init"
    /\ pc' = [pc EXCEPT ![t] = "Describing"]
    /\ UNCHANGED <<opts, bound, callvars, built, video_params, r, teardown, ret, stop, demuxed,
                   interrupted, chanvars, sessvars>>

DescribeOk(t) ==
    /\ pc[t] = "Describing"
    /\ pc' = [pc EXCEPT ![t] = "Selecting"]
    /\ UNCHANGED <<opts, bound, callvars, built, video_params, r, teardown, ret, stop, demuxed,
                   interrupted, chanvars, sessvars>>

DescribeErr(t) ==
    /\ pc[t] = "Describing"
    /\ Returns(t, Err("DESCRIBE"))
    /\ UNCHANGED <<opts, bound, callvars, built, teardown, ret, interrupted, chanvars, sessvars>>

SelectFound(t) ==
    /\ pc[t] = "Selecting"
    /\ pc' = [pc EXCEPT ![t] = "SettingUp"]
    /\ UNCHANGED <<opts, bound, callvars, built, video_params, r, teardown, ret, stop, demuxed,
                   interrupted, chanvars, sessvars>>

SelectAbsent(t) ==
    /\ pc[t] = "Selecting"
    /\ Returns(t, Err("couldn't find video stream"))
    /\ UNCHANGED <<opts, bound, callvars, built, teardown, ret, interrupted, chanvars, sessvars>>

\* Some(t) => t.parse::<Transport>() (unwrapped by the caller), None => Transport::default()
transport_value(transport) ==
    IF transport = "None" THEN Ok("default") ELSE transport_parse(transport)

TransportOk == transport_value(opts.transport).tag = "Ok"

SetupTransportPanic(t) ==
    /\ pc[t] = "SettingUp"
    /\ ~TransportOk
    /\ Panics(t)
    /\ UNCHANGED <<opts, bound, callvars, built, teardown, ret, interrupted, chanvars, sessvars>>

SetupErr(t) ==
    /\ pc[t] = "SettingUp"
    /\ TransportOk
    /\ Returns(t, Err("SETUP"))
    /\ UNCHANGED <<opts, bound, callvars, built, teardown, ret, interrupted, chanvars, sessvars>>

\* SETUP succeeded and the substream has parameters: they are cloned, PLAY is sent
SetupOk(t, v) ==
    /\ pc[t] = "SettingUp"
    /\ TransportOk
    /\ v \in bound.params
    /\ pc' = [pc EXCEPT ![t] = "Play"]
    /\ video_params' = [video_params EXCEPT ![t] = v]
    /\ UNCHANGED <<opts, bound, callvars, built, r, teardown, ret, stop, demuxed,
                   interrupted, chanvars, sessvars>>

\* SETUP succeeded and parameters() is None: unreachable!()
SetupNoParamsPanic(t) ==
    /\ pc[t] = "SettingUp"
    /\ TransportOk
    /\ Panics(t)
    /\ UNCHANGED <<opts, bound, callvars, built, teardown, ret, interrupted, chanvars, sessvars>>

PlayOk(t) ==
    /\ pc[t] = "Play"
    /\ pc' = [pc EXCEPT ![t] = "Playing"]
    /\ UNCHANGED <<opts, bound, callvars, built, video_params, r, teardown, ret, stop, demuxed,
                   interrupted, chanvars, sessvars>>

PlayErr(t) ==
    /\ pc[t] = "Play"
    /\ Returns(t, Err("PLAY"))
    /\ UNCHANGED <<opts, bound, callvars, built, teardown, ret, interrupted, chanvars, sessvars>>

(***************************************************************************)
(* The broadcast channel of a path.  The StreamsDef keeps one Receiver     *)
(* (its rx field) for as long as the process runs, and every session holds *)
(* one; send fails only when there is no receiver.  A receiver reads the   *)
(* value at its next position, or the lag signal when that position is no  *)
(* longer among the last Capacity values, and then jumps to the oldest     *)
(* retained one.                                                           *)
(***************************************************************************)
receiver_count(p) ==
    1 + Cardinality({s \in Sessions : sstate[s] \in {"upgraded", "attached"} /\ spath[s] = p})

tail(p) == Len(published[p])

\* send as a bounded queue would do it: it waits while a receiver has Capacity
\* unread values
send_blocking(p, frame) ==
    /\ \A s \in Sessions :
          (sstate[s] = "attached" /\ spath[s] = p) => tail(p) - next[s] < Capacity
    /\ published' = [published EXCEPT ![p] = Append(@, frame)]

send(p, frame) ==
    IF receiver_count(p) > 0
    THEN published' = [published EXCEPT ![p] = Append(@, frame)]
    ELSE published' = published

\* recv with one read position for the whole channel, that of the slowest receiver
recv_slowest(p, n) ==
    IF \E s \in Sessions :
          sstate[s] = "attached" /\ spath[s] = p /\ next[s] + Capacity < tail(p)
    THEN [tag |-> "Lagged", next |-> tail(p) - Capacity]
    ELSE [tag |-> "Ok", next |-> n + 1]

\* recv that advances past the value after the one it returns
recv_skip(p, n) ==
    IF n + Capacity < tail(p)
    THEN [tag |-> "Lagged", next |-> tail(p) - Capacity]
    ELSE [tag |-> "Ok", next |-> n + 2]

\* recv that returns the value and leaves the read position where it was
recv_repeat(p, n) ==
    IF n + Capacity < tail(p)
    THEN [tag |-> "Lagged", next |-> tail(p) - Capacity]
    ELSE [tag |-> "Ok", next |-> n]

recv(p, n) ==
    IF n + Capacity < tail(p)
    THEN [tag |-> "Lagged", next |-> tail(p) - Capacity]
    ELSE [tag |-> "Ok", next |-> n + 1]

(***************************************************************************)
(* run_inner, the select! loop.                                            *)
(***************************************************************************)
\* CodecItem::VideoFrame(m): process_video_frame, whose last step is tx.send
DemuxVideoFrame(t, au) ==
    /\ pc[t] = "Playing"
    /\ demuxed[t] < bound.frames
    /\ au \in bound.aus
    /\ LET m == [ts |-> demuxed[t], is_random_access_point |-> au.is_random_access_point,
                 data |-> au.data]
           out == process_video_frame(m, video_params[t])
       IN  IF out.tag = "Ok"
           THEN /\ send(t[2], out.val)
                /\ demuxed' = [demuxed EXCEPT ![t] = @ + 1]
                /\ UNCHANGED <<pc, r, video_params, stop>>
           ELSE /\ Panics(t)
                /\ published' = published
    /\ UNCHANGED <<opts, bound, callvars, built, teardown, ret, interrupted, sessvars>>

\* any other CodecItem: continue
DemuxOther(t) ==
    /\ pc[t] = "Playing"
    /\ demuxed[t] < bound.frames
    /\ demuxed' = [demuxed EXCEPT ![t] = @ + 1]
    /\ UNCHANGED <<opts, bound, callvars, built, pc, video_params, r, teardown, ret, stop,
                   interrupted, chanvars, sessvars>>

\* item.ok_or_else(|| anyhow!("EOF"))??  on the end of the stream or a demux error
DemuxErr(t, e) ==
    /\ pc[t] = "Playing"
    /\ e \in {"EOF", "demux"}
    /\ Returns(t, Err(e))
    /\ UNCHANGED <<opts, bound, callvars, built, teardown, ret, interrupted, chanvars, sessvars>>

\* the select! polls the ctrl_c future for the first time: it starts to listen
PollStop(t) ==
    /\ pc[t] = "Playing"
    /\ stop[t] = "unpolled"
    /\ stop' = [stop EXCEPT ![t] = "listening"]
    /\ UNCHANGED <<opts, bound, callvars, built, pc, video_params, r, teardown, ret, demuxed,
                   interrupted, chanvars, sessvars>>

\* the process receives the interrupt: every listening ctrl_c future becomes ready
Interrupt ==
    /\ ~interrupted
    /\ interrupted' = TRUE
    /\ stop' = [t \in Tasks |-> IF stop[t] = "listening" THEN "ready" ELSE stop[t]]
    /\ UNCHANGED <<opts, bound, callvars, built, pc, video_params, r, teardown, ret, demuxed,
                   chanvars, sessvars>>

\* _ = &mut stop => break;  then Ok(())
StopBreak(t) ==
    /\ pc[t] = "Playing"
    /\ stop[t] = "ready"
    /\ Returns(t, Ok("()"))
    /\ UNCHANGED <<opts, bound, callvars, built, teardown, ret, interrupted, chanvars, sessvars>>

(***************************************************************************)
(* run: after run_inner has returned r, await_teardown is awaited, its     *)
(* error is logged, and r is returned.                                     *)
(***************************************************************************)
\* run that returns the error of the teardown when the teardown fails
Teardown_masks(t, outcome) ==
    /\ pc[t] = "Terminating"
    /\ outcome \in {"ok", "failed"}
    /\ teardown' = [teardown EXCEPT ![t] = outcome]
    /\ ret' = [ret EXCEPT ![t] = IF outcome = "failed" THEN Err("TEARDOWN") ELSE r[t]]
    /\ pc' = [pc EXCEPT ![t] = "Done"]
    /\ UNCHANGED <<opts, bound, callvars, built, video_params, r, stop, demuxed,
                   interrupted, chanvars, sessvars>>

\* the end of run with a channel that closes when the task's sender is dropped:
\* the streams of the sessions of the path finish and their actors stop
Teardown_closes(t, outcome) ==
    /\ pc[t] = "Terminating"
    /\ outcome \in {"ok", "failed"}
    /\ teardown' = [teardown EXCEPT ![t] = outcome]
    /\ ret' = [ret EXCEPT ![t] = r[t]]
    /\ pc' = [pc EXCEPT ![t] = "Done"]
    /\ LET closed == {s \in Sessions : sstate[s] = "attached" /\ spath[s] = t[2]}
       IN  /\ sstate' = [s \in Sessions |-> IF s \in closed THEN "stopped" ELSE sstate[s]]
           /\ count' = [count EXCEPT ![t[2]] = @ - Cardinality(closed)]
           /\ stops' = [stops EXCEPT ![t[2]] = @ + Cardinality(closed)]
           /\ next' = [s \in Sessions |-> IF s \in closed THEN 0 ELSE next[s]]
           /\ sub_at' = [s \in Sessions |-> IF s \in closed THEN 0 ELSE sub_at[s]]
           /\ lags' = [s \in Sessions |-> IF s \in closed THEN 0 ELSE lags[s]]
           /\ wsout' = [s \in Sessions |-> IF s \in closed THEN <<>> ELSE wsout[s]]
    /\ UNCHANGED <<opts, bound, callvars, built, video_params, r, stop, demuxed,
                   interrupted, chanvars, starts, spath>>

Teardown(t, outcome) ==
    /\ pc[t] = "Terminating"
    /\ outcome \in {"ok", "failed"}
    /\ teardown' = [teardown EXCEPT ![t] = outcome]
    /\ ret' = [ret EXCEPT ![t] = r[t]]
    /\ pc' = [pc EXCEPT ![t] = "Done"]
    /\ UNCHANGED <<opts, bound, callvars, built, video_params, r, stop, demuxed,
                   interrupted, chanvars, sessvars>>

(***************************************************************************)
(* The subscriber session.                                                 *)
(***************************************************************************)
\* serde_json::to_string of the metadata object: the keys in sorted order
to_string(metadata) ==
    <<[key |-> "codec", str |-> metadata.codec, num |-> 0],
      [key |-> "media", str |-> metadata.media, num |-> 0],
      [key |-> "ts", str |-> "", num |-> metadata.ts]>>
    \o (IF "type" \in DOMAIN metadata
        THEN <<[key |-> "type", str |-> metadata.type, num |-> 0]>>
        ELSE <<>>)

\* ctx.text(json) and ctx.binary(data): the messages as they go on the wire
text(json) == [kind |-> "text", json |-> json, bytes |-> <<>>]

binary(data) == [kind |-> "binary", json |-> <<>>, bytes |-> data]

\* ctx.pong(&msg): a Pong with the bytes of the Ping
pong(bytes) == [kind |-> "pong", json |-> <<>>, bytes |-> bytes]

\* The payloads of the Pings a client sends: one byte each.
PingPayloads == {7, 9}

\* The inbound messages of a client: Pings, and a message of another kind.
Messages ==
    {[kind |-> "Ping", byte |-> b] : b \in PingPayloads} \cup {[kind |-> "Text", byte |-> 0]}

\* wsout records each outbound message by its kind and the position, in the
\* published sequence of the path, of the DataFrame the handler was given (for
\* a Pong: the byte of the Ping); wire gives the message itself.
wire(p, msg) ==
    CASE msg.kind = "text" -> text(to_string(published[p][msg.pos].metadata))
      [] msg.kind = "binary" -> binary(published[p][msg.pos].data)
      [] OTHER -> pong(<<msg.pos>>)

\* ws_index: the upgrade request of a path creates the actor of the session
ws_index(s, p) ==
    /\ s \in bound.sessions
    /\ p \in opts.streams
    /\ built # {}
    /\ sstate[s] = "idle"
    /\ tail(p) <= bound.join
    /\ sstate' = [sstate EXCEPT ![s] = "upgraded"]
    /\ spath' = [spath EXCEPT ![s] = p]
    /\ UNCHANGED <<opts, bound, callvars, built, taskvars, interrupted, chanvars,
                   count, starts, stops, next, sub_at, lags, wsout>>

\* started with a receiver that starts at the oldest value of the channel
started_replay(s) ==
    /\ sstate[s] = "upgraded"
    /\ tail(spath[s]) <= bound.join
    /\ sstate' = [sstate EXCEPT ![s] = "attached"]
    /\ next' = [next EXCEPT ![s] = 0]
    /\ sub_at' = [sub_at EXCEPT ![s] = tail(spath[s])]
    /\ count' = [count EXCEPT ![spath[s]] = @ + 1]
    /\ starts' = [starts EXCEPT ![spath[s]] = @ + 1]
    /\ UNCHANGED <<opts, bound, callvars, built, taskvars, interrupted, chanvars,
                   stops, spath, lags, wsout>>

\* Actor::started: resubscribe, add the stream to the context, count += 1
started(s) ==
    /\ sstate[s] = "upgraded"
    /\ tail(spath[s]) <= bound.join
    /\ sstate' = [sstate EXCEPT ![s] = "attached"]
    /\ next' = [next EXCEPT ![s] = tail(spath[s])]
    /\ sub_at' = [sub_at EXCEPT ![s] = tail(spath[s])]
    /\ count' = [count EXCEPT ![spath[s]] = @ + 1]
    /\ starts' = [starts EXCEPT ![spath[s]] = @ + 1]
    /\ UNCHANGED <<opts, bound, callvars, built, taskvars, interrupted, chanvars,
                   stops, spath, lags, wsout>>

\* handle that stops the actor when it is given the lag signal
handle_frame_stop_on_lag(s) ==
    /\ sstate[s] = "attached"
    /\ next[s] < tail(spath[s])
    /\ LET msg == recv(spath[s], next[s])
       IN  /\ next' = [next EXCEPT ![s] = msg.next]
           /\ IF msg.tag = "Ok"
              THEN /\ wsout' = [wsout EXCEPT ![s] =
                          @ \o <<[kind |-> "text", pos |-> next[s] + 1],
                                 [kind |-> "binary", pos |-> next[s] + 1]>>]
                   /\ UNCHANGED <<lags, sstate, count, stops>>
              ELSE /\ wsout' = wsout
                   /\ lags' = [lags EXCEPT ![s] = @ + 1]
                   /\ sstate' = [sstate EXCEPT ![s] = "stopped"]
                   /\ count' = [count EXCEPT ![spath[s]] = @ - 1]
                   /\ stops' = [stops EXCEPT ![spath[s]] = @ + 1]
    /\ UNCHANGED <<opts, bound, callvars, built, taskvars, interrupted, chanvars,
                   starts, spath, sub_at>>

\* StreamHandler<Result<DataFrame, BroadcastStreamRecvError>>::handle on the
\* next item of the BroadcastStream
handle_frame(s) ==
    /\ sstate[s] = "attached"
    /\ next[s] < tail(spath[s])
    /\ LET msg == recv(spath[s], next[s])
       IN  /\ next' = [next EXCEPT ![s] = msg.next]
           /\ IF msg.tag = "Ok"
              THEN /\ wsout' = [wsout EXCEPT ![s] =
                          @ \o <<[kind |-> "text", pos |-> next[s] + 1],
                                 [kind |-> "binary", pos |-> next[s] + 1]>>]
                   /\ lags' = lags
              ELSE /\ wsout' = wsout
                   /\ lags' = [lags EXCEPT ![s] = @ + 1]
    /\ UNCHANGED <<opts, bound, callvars, built, taskvars, interrupted, chanvars,
                   count, starts, stops, sstate, spath, sub_at>>

Pongs(s) == Cardinality({j \in 1..Len(wsout[s]) : wsout[s][j].kind = "pong"})

\* the Pong written ahead of the last message the actor has queued
handle_message_early(s, msg) ==
    /\ sstate[s] = "attached"
    /\ Pongs(s) < bound.pings
    /\ IF msg.kind = "Ping"
       THEN wsout' = [wsout EXCEPT ![s] =
                IF @ = <<>>
                THEN <<[kind |-> "pong", pos |-> msg.byte]>>
                ELSE SubSeq(@, 1, Len(@) - 1)
                     \o <<[kind |-> "pong", pos |-> msg.byte], @[Len(@)]>>]
       ELSE wsout' = wsout
    /\ UNCHANGED <<opts, bound, callvars, built, taskvars, interrupted, chanvars,
                   count, starts, stops, sstate, spath, next, sub_at, lags>>

\* StreamHandler<Result<ws::Message, ws::ProtocolError>>::handle: a Ping is
\* answered with a Pong of the same bytes, anything else is ignored
handle_message(s, msg) ==
    /\ sstate[s] = "attached"
    /\ Pongs(s) < bound.pings
    /\ IF msg.kind = "Ping"
       THEN wsout' = [wsout EXCEPT ![s] = Append(@, [kind |-> "pong", pos |-> msg.byte])]
       ELSE wsout' = wsout
    /\ UNCHANGED <<opts, bound, callvars, built, taskvars, interrupted, chanvars,
                   count, starts, stops, sstate, spath, next, sub_at, lags>>

\* stopped that leaves the count as it is
stopped_no_decrement(s) ==
    /\ sstate[s] = "attached"
    /\ sstate' = [sstate EXCEPT ![s] = "stopped"]
    /\ stops' = [stops EXCEPT ![spath[s]] = @ + 1]
    /\ next' = [next EXCEPT ![s] = 0]
    /\ sub_at' = [sub_at EXCEPT ![s] = 0]
    /\ lags' = [lags EXCEPT ![s] = 0]
    /\ wsout' = [wsout EXCEPT ![s] = <<>>]
    /\ UNCHANGED <<opts, bound, callvars, built, taskvars, interrupted, chanvars, count, starts, spath>>

\* Actor::stopped: count -= 1; the actor and its receiver are dropped
stopped(s) ==
    /\ sstate[s] = "attached"
    /\ sstate' = [sstate EXCEPT ![s] = "stopped"]
    /\ count' = [count EXCEPT ![spath[s]] = @ - 1]
    /\ stops' = [stops EXCEPT ![spath[s]] = @ + 1]
    /\ next' = [next EXCEPT ![s] = 0]
    /\ sub_at' = [sub_at EXCEPT ![s] = 0]
    /\ lags' = [lags EXCEPT ![s] = 0]
    /\ wsout' = [wsout EXCEPT ![s] = <<>>]
    /\ UNCHANGED <<opts, bound, callvars, built, taskvars, interrupted, chanvars, starts, spath>>

(***************************************************************************)
(* Specifications.                                                         *)
(***************************************************************************)
\* One worker, one path, one client: the ingester with every outcome.
Init ==
    \E tr \in {"None", "rtp"} :
        InitWith([workers |-> 1, transport |-> tr, streams |-> {"/ws"}],
                 [sessions |-> {1}, frames |-> MaxFrames, join |-> MaxFrames, pings |-> 0,
                  aus |-> {AuDelta, AuKey, AuTruncated},
                  params |-> {H264Params, H264CutParams, H265NoArrayParams}])

IngesterOk ==
    \/ \E w \in Workers : AppFactory(w)
    \/ \E t \in Tasks : TaskStart(t)
    \/ \E t \in Tasks : DescribeOk(t)
    \/ \E t \in Tasks : SelectFound(t)
    \/ \E t \in Tasks : \E v \in bound.params : SetupOk(t, v)
    \/ \E t \in Tasks : PlayOk(t)
    \/ \E t \in Tasks : \E au \in bound.aus : DemuxVideoFrame(t, au)

IngesterEnds ==
    \/ \E t \in Tasks : DescribeErr(t)
    \/ \E t \in Tasks : SelectAbsent(t)
    \/ \E t \in Tasks : SetupErr(t)
    \/ \E t \in Tasks : SetupNoParamsPanic(t)
    \/ \E t \in Tasks : PlayErr(t)
    \/ \E t \in Tasks : DemuxOther(t)
    \/ \E t \in Tasks : \E e \in {"EOF", "demux"} : DemuxErr(t, e)
    \/ \E t \in Tasks : PollStop(t)
    \/ Interrupt
    \/ \E t \in Tasks : StopBreak(t)
    \/ \E t \in Tasks : \E o \in {"ok", "failed"} : Teardown(t, o)

SessionAttach ==
    \/ \E s \in Sessions : \E p \in Streams : ws_index(s, p)
    \/ \E s \in Sessions : started(s)
    \/ \E s \in Sessions : handle_frame(s)

SessionStop == \E s \in Sessions : stopped(s)

TransportPanic == \E t \in Tasks : SetupTransportPanic(t)

Next == IngesterOk \/ IngesterEnds \/ TransportPanic \/ SessionAttach \/ SessionStop

Spec == Init /\ [][Next]_vars

\* One worker, one path: the sessions of up to MaxSessions clients beside an
\* ingester that stays in its loop.
InitSess ==
    InitWith([workers |-> 1, transport |-> "tcp", streams |-> {"/ws"}],
             [sessions |-> Sessions, frames |-> MaxFrames, join |-> MaxFrames, pings |-> 0,
              aus |-> {AuDelta, AuKey}, params |-> {H264Params}])

NextSess == IngesterOk \/ SessionAttach \/ SessionStop

SpecSess == InitSess /\ [][NextSess]_vars

\* The outbound messages of a session that was given the DataFrames at the
\* positions a + 1 .. b of the published sequence, in that order.
Forwarded(a, b) ==
    [j \in 1..(2 * (b - a)) |->
        [kind |-> IF j % 2 = 1 THEN "text" ELSE "binary", pos |-> a + (j + 1) \div 2]]

\* The DataFrames of k access units AuDelta with parameters H264Params.
DeltaFrames(k) ==
    [i \in 1..k |->
        process_video_frame([ts |-> i - 1, is_random_access_point |-> FALSE,
                             data |-> AuDelta.data], H264Params).val]

\* The channel near its capacity.  The ingester is in its loop and has
\* published ChanStart frames since two clients attached; the first session
\* has read none of them, the second has read any number of them.  (The
\* program reaches each of these states from its start: AppFactory, the steps
\* of the task up to PlayOk, ws_index and started of both sessions, ChanStart
\* steps DemuxVideoFrame and the handle_frame steps of the second session.)
InitChan ==
    /\ opts = [workers |-> 1, transport |-> "tcp", streams |-> {"/ws"}]
    /\ bound = [sessions |-> {1, 2}, frames |-> ChanFrames, join |-> 0, pings |-> 0,
                aus |-> {AuDelta}, params |-> {H264Params}]
    /\ built = {1}
    /\ pc = [t \in Tasks |-> IF t = <<1, "/ws">> THEN "Playing" ELSE "Unspawned"]
    /\ video_params = [t \in Tasks |-> IF t = <<1, "/ws">> THEN H264Params ELSE NoParams]
    /\ r = [t \in Tasks |-> NoResult]
    /\ teardown = [t \in Tasks |-> "none"]
    /\ ret = [t \in Tasks |-> NoResult]
    /\ stop = [t \in Tasks |-> "unpolled"]
    /\ demuxed = [t \in Tasks |-> IF t = <<1, "/ws">> THEN ChanStart ELSE 0]
    /\ interrupted = FALSE
    /\ published = [p \in Streams |-> IF p = "/ws" THEN DeltaFrames(ChanStart) ELSE <<>>]
    /\ count = [p \in Streams |-> IF p = "/ws" THEN count_new + 2 ELSE count_new]
    /\ starts = [p \in Streams |-> IF p = "/ws" THEN 2 ELSE 0]
    /\ stops = [p \in Streams |-> 0]
    /\ sstate = [s \in Sessions |-> IF s \in {1, 2} THEN "attached" ELSE "idle"]
    /\ spath = [s \in Sessions |-> "/ws"]
    /\ \E n \in 0..ChanStart :
          /\ next = [s \in Sessions |-> IF s = 2 THEN n ELSE 0]
          /\ wsout = [s \in Sessions |-> IF s = 2 THEN Forwarded(0, n) ELSE <<>>]
    /\ sub_at = [s \in Sessions |-> 0]
    /\ lags = [s \in Sessions |-> 0]
    /\ input = NoInput
    /\ output = NoResult

NextChan ==
    \/ \E t \in Tasks : \E au \in bound.aus : DemuxVideoFrame(t, au)
    \/ \E s \in Sessions : handle_frame(s)

SpecChan == InitChan /\ [][NextChan]_vars

\* The channel near its capacity with one session that has been sent up to
\* LagRead frames and then stalls: the ingester is in its loop and has
\* published ChanStart frames since the client attached.  (The program reaches
\* each of these states from its start, as those of InitChan.)
InitLag ==
    /\ opts = [workers |-> 1, transport |-> "tcp", streams |-> {"/ws"}]
    /\ bound = [sessions |-> {1}, frames |-> LagFrames, join |-> 0, pings |-> 0,
                aus |-> {AuDelta}, params |-> {H264Params}]
    /\ built = {1}
    /\ pc = [t \in Tasks |-> IF t = <<1, "/ws">> THEN "Playing" ELSE "Unspawned"]
    /\ video_params = [t \in Tasks |-> IF t = <<1, "/ws">> THEN H264Params ELSE NoParams]
    /\ r = [t \in Tasks |-> NoResult]
    /\ teardown = [t \in Tasks |-> "none"]
    /\ ret = [t \in Tasks |-> NoResult]
    /\ stop = [t \in Tasks |-> "unpolled"]
    /\ demuxed = [t \in Tasks |-> IF t = <<1, "/ws">> THEN ChanStart ELSE 0]
    /\ interrupted = FALSE
    /\ published = [p \in Streams |-> IF p = "/ws" THEN DeltaFrames(ChanStart) ELSE <<>>]
    /\ count = [p \in Streams |-> IF p = "/ws" THEN count_new + 1 ELSE count_new]
    /\ starts = [p \in Streams |-> IF p = "/ws" THEN 1 ELSE 0]
    /\ stops = [p \in Streams |-> 0]
    /\ sstate = [s \in Sessions |-> IF s = 1 THEN "attached" ELSE "idle"]
    /\ spath = [s \in Sessions |-> "/ws"]
    /\ \E n \in 0..LagRead :
          /\ next = [s \in Sessions |-> IF s = 1 THEN n ELSE 0]
          /\ wsout = [s \in Sessions |-> IF s = 1 THEN Forwarded(0, n) ELSE <<>>]
    /\ sub_at = [s \in Sessions |-> 0]
    /\ lags = [s \in Sessions |-> 0]
    /\ input = NoInput
    /\ output = NoResult

SpecLag == InitLag /\ [][NextChan]_vars

\* Up to MaxWorkers HTTP workers, one path, no client.
InitWorkers ==
    \E n \in Workers :
        InitWith([workers |-> n, transport |-> "None", streams |-> {"/ws"}],
                 [sessions |-> {}, frames |-> 1, join |-> 0, pings |-> 0,
                  aus |-> {AuDelta}, params |-> {H264Params}])

NextWorkers == IngesterOk \/ IngesterEnds

SpecWorkers == InitWorkers /\ [][NextWorkers]_vars

\* One worker, one path, no client, well-formed input: the ingester up to its
\* loop, the interrupt and the stop.  The select! of the loop chooses among
\* its ready branches at random, so a branch that stays ready is taken in the
\* end, and a pending await (the first poll of the ctrl_c future, the
\* teardown) is resumed by the runtime: weak fairness of these steps.  A
\* demuxer item that is not a video frame changes nothing, so a demuxer that
\* yields such items without end is the stuttering this specification allows.
InitLive ==
    InitWith([workers |-> 1, transport |-> "tcp", streams |-> {"/ws"}],
             [sessions |-> {}, frames |-> MaxFrames, join |-> 0, pings |-> 0,
              aus |-> {AuDelta, AuKey}, params |-> {H264Params}])

StopSteps ==
    \/ \E t \in Tasks : PollStop(t)
    \/ Interrupt
    \/ \E t \in Tasks : StopBreak(t)
    \/ \E t \in Tasks : \E o \in {"ok", "failed"} : Teardown(t, o)

NextLive == IngesterOk \/ StopSteps

FairLive ==
    \A t \in Tasks :
        /\ WF_vars(PollStop(t))
        /\ WF_vars(StopBreak(t))
        /\ WF_vars(\E o \in {"ok", "failed"} : Teardown(t, o))

SpecLive == InitLive /\ [][NextLive]_vars /\ FairLive


\* One worker, one path, one client that also sends up to MaxPings Pings.
InitPing ==
    InitWith([workers |-> 1, transport |-> "tcp", streams |-> {"/ws"}],
             [sessions |-> {1}, frames |-> MaxFrames, join |-> MaxFrames, pings |-> MaxPings,
              aus |-> {AuDelta, AuKey}, params |-> {H264Params}])

Inbound == \E s \in Sessions : \E msg \in Messages : handle_message(s, msg)

NextPing == IngesterOk \/ SessionAttach \/ Inbound

SpecPing == InitPing /\ [][NextPing]_vars

\* One worker, two paths, one client on either path: every way an ingester
\* fails and ends, beside the ingester of the other path.
InitStreams ==
    InitWith([workers |-> 1, transport |-> "tcp", streams |-> Streams],
             [sessions |-> {1}, frames |-> MaxStreamFrames, join |-> 0, pings |-> 0,
              aus |-> {AuDelta, AuTruncated}, params |-> {H264Params}])

IngesterFails ==
    \/ \E t \in Tasks : DescribeErr(t)
    \/ \E t \in Tasks : SelectAbsent(t)
    \/ \E t \in Tasks : SetupErr(t)
    \/ \E t \in Tasks : SetupNoParamsPanic(t)
    \/ \E t \in Tasks : PlayErr(t)
    \/ \E t \in Tasks : \E e \in {"EOF", "demux"} : DemuxErr(t, e)
    \/ \E t \in Tasks : \E o \in {"ok", "failed"} : Teardown(t, o)

NextStreams == IngesterOk \/ IngesterFails \/ SessionAttach

SpecStreams == InitStreams /\ [][NextStreams]_vars

\* One worker, one path, up to MaxSessions clients that connect and leave at
\* any time, before and after the ingester has ended by an error, the end of
\* the stream or the stop.
InitOutlive ==
    InitWith([workers |-> 1, transport |-> "tcp", streams |-> {"/ws"}],
             [sessions |-> Sessions, frames |-> MaxOutliveFrames, join |-> MaxOutliveFrames,
              pings |-> 0, aus |-> {AuDelta}, params |-> {H264Params}])

NextOutlive == IngesterOk \/ IngesterEnds \/ SessionAttach \/ SessionStop

SpecOutlive == InitOutlive /\ [][NextOutlive]_vars

(***************************************************************************)
(* avcc_to_annex_b on its own: the argument is drawn from the access units *)
(* of up to MaxNals NAL units and from their malformed variants, and the   *)
(* one step is the call.                                                    *)
(***************************************************************************)
\* NAL bodies: never empty; one of them has the bytes of a start code
Bodies == {<<103, 66>>, <<104, 206, 1>>, <<0, 0, 0, 1>>, <<101>>}

NalSeqs == UNION {[1..k -> Bodies] : k \in 0..MaxNals}

\* (n as u32).to_be_bytes()
u32_to_be_bytes(n) ==
    <<(n \div 16777216) % 256, (n \div 65536) % 256, (n \div 256) % 256, n % 256>>

\* the AVCC framing of a sequence of NAL bodies: each after its 4-byte length
RECURSIVE Avcc(_)
Avcc(nals) ==
    IF nals = <<>>
    THEN <<>>
    ELSE u32_to_be_bytes(Len(Head(nals))) \o Head(nals) \o Avcc(Tail(nals))

\* what ends a malformed access unit: 1 to 3 bytes of a length,
PartialLengths == {<<0>>, <<0, 0>>, <<0, 0, 0>>, <<0, 0, 2>>}

\* a length with fewer bytes after it,
PartialBodies == {<<0, 0, 0, 5, 97, 136>>, <<0, 0, 0, 2>>, <<0, 0, 0, 2, 65>>}

\* a length of zero, at the end or ahead of a whole NAL unit
ZeroLengths == {<<0, 0, 0, 0>>, <<0, 0, 0, 0, 0, 0, 0, 1, 9>>}

AvccInput(kind, nals, rest) == [kind |-> kind, nals |-> nals, data |-> Avcc(nals) \o rest]

AvccInputs ==
    {AvccInput("well-formed", w, <<>>) : w \in NalSeqs}
        \cup {AvccInput("partial length", w, t) : w \in NalSeqs, t \in PartialLengths}
        \cup {AvccInput("partial body", w, t) : w \in NalSeqs, t \in PartialBodies}
        \cup {AvccInput("zero length", w, t) : w \in NalSeqs, t \in ZeroLengths}

\* the configuration for a call of a function on its own: no worker is started
NoServer == [workers |-> 0, transport |-> "None", streams |-> {}]

NoClients ==
    [sessions |-> {}, frames |-> 0, join |-> 0, pings |-> 0, aus |-> {}, params |-> {}]

InitAvcc ==
    /\ InitState(NoServer, NoClients)
    /\ input \in AvccInputs
    /\ output = NoResult

Convert ==
    /\ output.tag = "None"
    /\ output' = avcc_to_annex_b(input.data)
    /\ UNCHANGED <<opts, bound, built, taskvars, interrupted, chanvars, sessvars, input>>

NextAvcc == Convert

SpecAvcc == InitAvcc /\ [][NextAvcc]_vars

(***************************************************************************)
(* parse_codec_config on its own: the argument is drawn from well-formed   *)
(* AVCDecoderConfigurationRecords, from the H.264 and the H.265 record cut *)
(* at every byte position, and from other codecs; the one step is the      *)
(* call.                                                                    *)
(***************************************************************************)
\* (n as u16).to_be_bytes()
u16_to_be_bytes(n) == <<(n \div 256) % 256, n % 256>>

\* configurationVersion, profile, compatibility, level, lengthSizeMinusOne,
\* numOfSequenceParameterSets
AvcHeaders == {<<1, 66, 0, 30, 255, 225>>, <<1, 100, 0, 40, 255, 225>>}

SpsSet == {<<103, 66, 0, 30>>, <<103>>, <<103, 100, 0, 40, 172>>}

PpsSet == {<<104, 206, 56, 128>>, <<104>>, <<104, 238, 60>>}

AvcRecord(header, sps, pps) ==
    header \o u16_to_be_bytes(Len(sps)) \o sps \o <<1>> \o u16_to_be_bytes(Len(pps)) \o pps

\* the first n bytes of a record
Cut(record, n) == SubSeq(record, 1, n)

CfgInput(kind, codec, extra_data, sps, pps) ==
    [kind |-> kind, codec |-> codec, extra_data |-> extra_data, sps |-> sps, pps |-> pps]

CfgInputs ==
    {CfgInput("well-formed", "avc1", AvcRecord(h, sps, pps), sps, pps) :
        h \in AvcHeaders, sps \in SpsSet, pps \in PpsSet}
        \cup UNION {{CfgInput("truncated", v.codec, Cut(v.extra_data, n), <<>>, <<>>) :
                         n \in 0..(Len(v.extra_data) - 1)} : v \in {H264Params, H265Params}}
        \cup {CfgInput("unsupported", codec, H264Record, <<>>, <<>>) : codec \in {"mp4v", "vp09"}}

InitCfg ==
    /\ InitState(NoServer, NoClients)
    /\ input \in CfgInputs
    /\ output = NoResult

ParseConfig ==
    /\ output.tag = "None"
    /\ output' = parse_codec_config(input)
    /\ UNCHANGED <<opts, bound, built, taskvars, interrupted, chanvars, sessvars, input>>

NextCfg == ParseConfig

SpecCfg == InitCfg /\ [][NextCfg]_vars

(***************************************************************************)
(* Properties.                                                             *)
(***************************************************************************)
Attached(s) == s \in bound.sessions /\ sstate[s] = "attached"

Unread(s) == tail(spath[s]) - next[s]

C2_SubscriberIsolation ==
    [][\A s \in Sessions :
          (Attached(s) /\ Unread(s) <= Capacity /\ wsout[s] = Forwarded(sub_at[s], next[s])
              /\ <<next[s], wsout[s], lags[s]>>' # <<next[s], wsout[s], lags[s]>>)
          => /\ next'[s] = next[s] + 1
             /\ lags'[s] = lags[s]
             /\ wsout'[s] = Forwarded(sub_at[s], next[s] + 1)]_vars

\* session 1 has read nothing of more than Capacity frames, session 2 has been
\* given every one of them
C2_Witness ==
    /\ Attached(1) /\ Attached(2)
    /\ next[1] = 0
    /\ tail("/ws") > Capacity
    /\ next[2] = tail("/ws")
    /\ lags[2] = 0
    /\ wsout[2] = Forwarded(0, tail("/ws"))

\* C3: the messages sent to a session that has read no lag signal are, at
\* every point, those of the frames published at the positions that follow its
\* subscription, one after the other up to its read position: no gap, no
\* reordering.
C3_PerSubscriberFifo ==
    \A s \in Sessions :
        (Attached(s) /\ lags[s] = 0)
            => /\ next[s] <= tail(spath[s])
               /\ wsout[s] = Forwarded(sub_at[s], next[s])

\* a session that subscribed after the first frame has been given two frames
C3_Witness ==
    \E s \in Sessions :
        /\ Attached(s)
        /\ sub_at[s] = 1
        /\ next[s] = 3
        /\ Len(wsout[s]) = 4

\* C4: no message of a session is of a frame that was published before the
\* session subscribed.
C4_NoReplay ==
    \A s \in Sessions :
        Attached(s) => \A j \in 1..Len(wsout[s]) : wsout[s][j].pos > sub_at[s]

\* session 2 subscribed after a frame that session 1 has not read yet, and has
\* been given a later frame
C4_Witness ==
    /\ Attached(1) /\ Attached(2)
    /\ sub_at[1] = 0
    /\ next[1] = 0
    /\ sub_at[2] >= 1
    /\ wsout[2] # <<>>

\* C5: the count of a path is the number of calls of started minus the number
\* of calls of stopped, is the number of its attached sessions, and is not
\* negative; every session that has stopped was counted down once.
C5_CounterIntegrity ==
    \A p \in Streams :
        /\ count[p] = starts[p] - stops[p]
        /\ count[p] = Cardinality({s \in Sessions : sstate[s] = "attached" /\ spath[s] = p})
        /\ count[p] >= 0
        /\ stops[p] = Cardinality({s \in Sessions : sstate[s] = "stopped" /\ spath[s] = p})

\* two sessions started, one of them stopped
C5_Witness ==
    /\ starts["/ws"] = 2
    /\ stops["/ws"] = 1
    /\ count["/ws"] = 1

IsPrefix(a, b) == Len(a) <= Len(b) /\ SubSeq(b, 1, Len(a)) = a

Keyframe(f) == "type" \in DOMAIN f.metadata /\ f.metadata.type = "keyframe"

\* C6: every published DataFrame whose metadata has type "keyframe" begins
\* with the configuration prefix of parameters of its codec, and that prefix
\* is not empty.
C6_KeyframeHasPrefix ==
    \A p \in Streams : \A i \in 1..Len(published[p]) :
        Keyframe(published[p][i])
            => \E v \in bound.params :
                  /\ v.codec = published[p][i].metadata.codec
                  /\ parse_codec_config(v).tag = "Ok"
                  /\ parse_codec_config(v).val # <<>>
                  /\ IsPrefix(parse_codec_config(v).val, published[p][i].data)

\* C7: no step takes an ingester out of its loop by a failure of the
\* processing of a frame: from Playing a task goes on in Playing, or ends
\* through Terminating on a demux error, the end of the stream or the stop.
C7_FrameErrorNonFatal ==
    [][\A t \in Tasks : pc[t] = "Playing" => pc'[t] \in {"Playing", "Terminating"}]_vars

TaskEnded(t) == pc[t] \in {"Done", "Panicked"}

\* C8: every task that has ended has awaited the teardown of its session.
C8_TeardownAlways ==
    \A t \in Tasks : TaskEnded(t) => teardown[t] # "none"

\* C9: once the server has started, exactly one ingester task has been
\* spawned for every registered path.
C9_OneIngesterPerStream ==
    \A p \in opts.streams :
        built # {} => Cardinality({t \in Tasks : t[2] = p /\ pc[t] # "Unspawned"}) = 1

\* The state of the table of the ingester that a position of run is in: the
\* await of PLAY belongs to Playing, and a task that has unwound has ended.
StateOf(x) ==
    CASE x = "Play" -> "Playing"
      [] x = "Panicked" -> "Done"
      [] OTHER -> x

TableStep(a, b) ==
    \/ a = b
    \/ a = "Unspawned" /\ b = "Init"
    \/ a = "Init" /\ b = "Describing"
    \/ a = "Describing" /\ b \in {"Selecting", "Terminating"}
    \/ a = "Selecting" /\ b \in {"SettingUp", "Terminating"}
    \/ a = "SettingUp" /\ b \in {"Playing", "Terminating"}
    \/ a = "Playing" /\ b = "Terminating"
    \/ a = "Terminating" /\ b = "Done"

\* C10: every step of a task is a transition of the state table, and a frame
\* is published on a path only by a task of that path that is in Playing.
C10_StateTable ==
    [][/\ \A t \in Tasks : TableStep(StateOf(pc[t]), StateOf(pc'[t]))
       /\ \A p \in Streams :
             published'[p] # published[p]
                 => \E t \in Tasks : t[2] = p /\ pc[t] = "Playing" /\ pc'[t] = "Playing"]_vars

\* C11: once the interrupt has been signalled, every ingester that is in its
\* loop leaves it in the end, awaits the teardown and is done, and the value
\* it returns is Ok(()).
C11_CooperativeShutdown ==
    \A t \in Tasks :
        (interrupted /\ pc[t] = "Playing")
            ~> (pc[t] = "Done" /\ teardown[t] # "none" /\ ret[t] = Ok("()"))

\* C12: in the outbound sequence of a session every text message is that of
\* the metadata of a frame and is directly followed by the binary message
\* with the payload of the same frame, and every binary message directly
\* follows the text message of its frame: no Pong and no message of another
\* frame stands between the two.
C12_TextThenBinary ==
    \A s \in Sessions :
        Attached(s) =>
            \A j \in 1..Len(wsout[s]) :
                LET msg == wsout[s][j]
                    frame == published[spath[s]][msg.pos]
                IN  /\ msg.kind = "text" =>
                          /\ wire(spath[s], msg) = text(to_string(frame.metadata))
                          /\ j < Len(wsout[s])
                          /\ wsout[s][j + 1] = [kind |-> "binary", pos |-> msg.pos]
                          /\ wire(spath[s], wsout[s][j + 1]) = binary(frame.data)
                    /\ msg.kind = "binary" =>
                          /\ j > 1
                          /\ wsout[s][j - 1] = [kind |-> "text", pos |-> msg.pos]

\* a Pong was sent right after the two messages of one frame and right before
\* those of the next
C12_Witness ==
    \E s \in Sessions :
        /\ Attached(s)
        /\ Len(wsout[s]) >= 5
        /\ \E j \in 1..(Len(wsout[s]) - 4) :
              /\ wsout[s][j].kind = "text"
              /\ wsout[s][j + 1].kind = "binary"
              /\ wsout[s][j + 2].kind = "pong"
              /\ wsout[s][j + 3].kind = "text"
              /\ wsout[s][j + 4].kind = "binary"

\* the positions of the frames whose messages a session has been sent
Positions(s) == {wsout[s][j].pos : j \in {i \in 1..Len(wsout[s]) : wsout[s][i].kind # "pong"}}

\* C13: the step in which a session reads the lag signal leaves it attached
\* and counted, sends nothing, and moves its read position past the frames the
\* channel no longer retains; every step of a session sends either nothing or
\* the two messages of the frame at its read position, which is later than
\* every frame it was sent before, so a frame it has passed is never sent;
\* and a session that has read the lag signal and has unread frames is given
\* the next of them at its next read.
C13_LagNonFatal ==
    /\ [][\A s \in Sessions :
            Attached(s) =>
                /\ lags'[s] # lags[s] =>
                      /\ lags'[s] = lags[s] + 1
                      /\ sstate'[s] = "attached"
                      /\ count' = count
                      /\ stops' = stops
                      /\ wsout'[s] = wsout[s]
                      /\ next'[s] = tail(spath[s]) - Capacity
                      /\ next'[s] > next[s]
                /\ wsout'[s] # wsout[s] =>
                      /\ wsout'[s] = wsout[s] \o <<[kind |-> "text", pos |-> next[s] + 1],
                                                    [kind |-> "binary", pos |-> next[s] + 1]>>
                      /\ next'[s] = next[s] + 1
                      /\ \A q \in Positions(s) : q <= next[s]
                /\ next'[s] >= next[s]]_vars
    /\ [](\A s \in Sessions :
            (Attached(s) /\ lags[s] > 0 /\ Unread(s) > 0 /\ Unread(s) <= Capacity)
                => ENABLED (handle_frame(s) /\ wsout'[s] # wsout[s]))

\* session 1 has read the lag signal, is attached and counted, and has then
\* been sent the oldest frame the channel retained, not the one it lost
C13_Witness ==
    /\ Attached(1)
    /\ lags[1] = 1
    /\ count["/ws"] = count_new + 2
    /\ wsout[1] # <<>>
    /\ wsout[1][1].pos = tail("/ws") - Capacity + 1
    /\ 1 \notin Positions(1)

\* the Annex-B stream of a sequence of NAL bodies: each after 00 00 00 01
RECURSIVE AnnexB(_)
AnnexB(nals) ==
    IF nals = <<>>
    THEN <<>>
    ELSE <<0, 0, 0, 1>> \o Head(nals) \o AnnexB(Tail(nals))

\* C14: for a well-formed AVCC argument with the NAL bodies N1..Nk (k from 0
\* to MaxNals) avcc_to_annex_b returns Ok with exactly 00 00 00 01 N1 ...
\* 00 00 00 01 Nk.
C14_AvccRoundTrip ==
    (input.kind = "well-formed" /\ output.tag # "None")
        => /\ output.tag = "Ok"
           /\ output.val = AnnexB(input.nals)

\* the call on 00 00 00 02 67 42 00 00 00 03 68 CE 01 has returned
\* 00 00 00 01 67 42 00 00 00 01 68 CE 01
C14_Witness ==
    /\ input.kind = "well-formed"
    /\ input.data = <<0, 0, 0, 2, 103, 66, 0, 0, 0, 3, 104, 206, 1>>
    /\ output.tag = "Ok"
    /\ output.val = <<0, 0, 0, 1, 103, 66, 0, 0, 0, 1, 104, 206, 1>>

\* C15: for an argument that ends with a partial length or a partial body, or
\* that has a length of zero, avcc_to_annex_b returns an error.
C15_TruncationDetected ==
    (input.kind # "well-formed" /\ output.tag # "None") => output.tag = "Err"

\* C16: for a well-formed AVCDecoderConfigurationRecord with one SPS and one
\* PPS, parse_h264_config returns Ok with exactly 00 00 00 01 SPS 00 00 00 01
\* PPS.
C16_H264ConfigExtracted ==
    (input.kind = "well-formed" /\ output.tag # "None")
        => /\ output.tag = "Ok"
           /\ output.val = <<0, 0, 0, 1>> \o input.sps \o <<0, 0, 0, 1>> \o input.pps

\* the call on the record with SPS 67 42 00 1E and PPS 68 CE 38 80 has
\* returned 00 00 00 01 67 42 00 1E 00 00 00 01 68 CE 38 80
C16_Witness ==
    /\ input.kind = "well-formed"
    /\ input.extra_data = H264Record
    /\ output.tag = "Ok"
    /\ output.val = <<0, 0, 0, 1, 103, 66, 0, 30, 0, 0, 0, 1, 104, 206, 56, 128>>

\* C17: for an H.264 or H.265 record cut at any byte position, and for a
\* codec other than avc1 / hvc1, parse_codec_config returns an error: it does
\* not panic and does not return Ok.
C17_ConfigErrorOnTruncation ==
    (input.kind \in {"truncated", "unsupported"} /\ output.tag # "None")
        => output.tag = "Err"

\* everything of the path q: its tasks, its channel, its count, its sessions
StreamState(q) ==
    <<[t \in {x \in Tasks : x[2] = q} |->
          <<pc[t], video_params[t], r[t], teardown[t], ret[t], stop[t], demuxed[t]>>],
      published[q], count[q], starts[q], stops[q],
      [s \in {x \in Sessions : spath[x] = q} |->
          <<sstate[s], next[s], sub_at[s], lags[s], wsout[s]>>]>>

\* the step in which the task t fails (an error returned by run_inner, or a
\* panic) or ends after its failure
FailsOrEnds(t) ==
    /\ pc[t] \in {"Describing", "Selecting", "SettingUp", "Play", "Playing", "Terminating"}
    /\ pc'[t] \in {"Terminating", "Panicked", "Done"}
    /\ pc'[t] # pc[t]

\* C18: a step in which the ingester of one path fails or ends changes
\* nothing of any other path (tasks, channel, count, sessions), and an
\* ingester that is in its loop can publish its next frame whatever has
\* become of the ingesters of the other paths.
C18_StreamFailureIsolation ==
    /\ [][\A t \in Tasks :
            FailsOrEnds(t) =>
                \A q \in Streams \ {t[2]} : StreamState(q)' = StreamState(q)]_vars
    /\ [](\A t \in Tasks :
            (pc[t] = "Playing" /\ demuxed[t] < bound.frames)
                => ENABLED (DemuxVideoFrame(t, AuDelta)
                               /\ published'[t[2]] # published[t[2]]))

\* the ingester of /ws has panicked in its loop and that of /cam, in its
\* loop, has published a frame which the session of /cam has been sent
C18_Witness ==
    /\ pc[<<1, "/ws">>] = "Panicked"
    /\ pc[<<1, "/cam">>] = "Playing"
    /\ published["/cam"] # <<>>
    /\ Attached(1)
    /\ spath[1] = "/cam"
    /\ wsout[1] # <<>>

\* the results with which run_inner can end at a position of the pipeline
PipelineResults(at, stopping) ==
    CASE at = "Describing" -> {Err("DESCRIBE")}
      [] at = "Selecting" -> {Err("couldn't find video stream")}
      [] at = "SettingUp" -> {Err("SETUP")}
      [] at = "Play" -> {Err("PLAY")}
      [] at = "Playing" ->
            {Err("EOF"), Err("demux")} \cup (IF stopping THEN {Ok("()")} ELSE {})
      [] OTHER -> {}

\* C19: the value run returns is the result with which run_inner ended (the
\* error of the failing step, or Ok(()) when the loop was left on the stop
\* signal), with the teardown succeeded as with the teardown failed.
C19_TeardownDoesNotMask ==
    /\ [][\A t \in Tasks :
            /\ (pc'[t] = "Terminating" /\ pc[t] # "Terminating")
                  => r'[t] \in PipelineResults(pc[t], stop[t] = "ready")
            /\ (pc[t] = "Terminating" /\ pc'[t] = "Done")
                  => /\ teardown'[t] \in {"ok", "failed"}
                     /\ r'[t] = r[t]
                     /\ ret'[t] = r[t]]_vars
    /\ [](\A t \in Tasks : pc[t] = "Done" => ret[t] = r[t] /\ ret[t].tag \in {"Ok", "Err"})

\* the teardown has failed after a demux error, and run has returned the
\* demux error
C19_Witness ==
    \E t \in Tasks :
        /\ pc[t] = "Done"
        /\ teardown[t] = "failed"
        /\ ret[t] = Err("demux")

\* the last DataFrame sent on the path p
LastPublished(p) == published[p][Len(published[p])]

\* the DataFrame f agrees with the access unit au it was made of
TypeMatchesFlag(f, au) ==
    /\ ("type" \in DOMAIN f.metadata) <=> au.is_random_access_point
    /\ au.is_random_access_point => f.metadata.type = "keyframe"
    /\ ~au.is_random_access_point =>
          /\ f.data = avcc_to_annex_b(au.data).val
          /\ \A nals \in NalSeqs \cup {<<<<65, 154>>>>, <<<<101, 136>>>>} :
                au.data = Avcc(nals) => f.data = AnnexB(nals)

\* C20: whatever access unit the demuxer yields next, the DataFrame that is
\* published for it has the type "keyframe" if and only if the access unit is
\* a random-access point, and for an access unit that is not one it has no
\* type key and its payload is the Annex-B conversion of the access unit and
\* nothing else.
C20_TypeIffRandomAccess ==
    \A t \in Tasks : \A au \in bound.aus :
        ~ENABLED (/\ DemuxVideoFrame(t, au)
                  /\ published'[t[2]] # published[t[2]]
                  /\ ~TypeMatchesFlag(published'[t[2]][Len(published'[t[2]])], au))

\* a frame with type "keyframe" has been published, and after it a frame
\* without a type key whose payload is 00 00 00 01 and the NAL unit
C20_Witness ==
    /\ Len(published["/ws"]) >= 2
    /\ Keyframe(published["/ws"][1])
    /\ "type" \notin DOMAIN LastPublished("/ws").metadata
    /\ LastPublished("/ws").data = <<0, 0, 0, 1, 65, 154>>

\* the ingester of the path p was spawned and has returned
IngesterDone(p) ==
    /\ \E t \in Tasks : t[2] = p /\ pc[t] = "Done"
    /\ \A t \in Tasks : t[2] = p => pc[t] \in {"Unspawned", "Done"}

\* C21: the steps in which an ingester returns its result and ends change
\* nothing of the sessions or of the count; once the ingester of a path is
\* done nothing more is published on the path, a session with unread frames is
\* still given them (the channel is not closed), a client can still connect,
\* and a session that starts is attached and counted.
C21_SessionsOutliveIngester ==
    /\ [][/\ (\E t \in Tasks : pc'[t] # pc[t] /\ pc'[t] \in {"Terminating", "Done"})
               => UNCHANGED <<sessvars, chanvars>>
           /\ \A p \in Streams : IngesterDone(p) => published'[p] = published[p]]_vars
    /\ [](\A p \in opts.streams : \A s \in bound.sessions :
             IngesterDone(p) =>
                 /\ (sstate[s] = "idle" /\ tail(p) <= bound.join) => ENABLED ws_index(s, p)
                 /\ (sstate[s] = "upgraded" /\ spath[s] = p)
                       => ENABLED (/\ started(s)
                                   /\ sstate'[s] = "attached"
                                   /\ count'[p] = count[p] + 1)
                 /\ (Attached(s) /\ spath[s] = p /\ Unread(s) > 0)
                       => ENABLED (handle_frame(s) /\ wsout'[s] # wsout[s])
                 /\ (Attached(s) /\ spath[s] = p /\ Unread(s) = 0)
                       => ~ENABLED handle_frame(s))

\* the ingester has ended on the end of the stream; session 1, attached
\* before, has been sent a frame and is still attached, and session 2 has
\* attached at the end of the channel and is counted
C21_Witness ==
    /\ pc[<<1, "/ws">>] = "Done"
    /\ ret[<<1, "/ws">>] = Err("EOF")
    /\ Attached(1) /\ Attached(2)
    /\ sub_at[1] = 0
    /\ wsout[1] # <<>>
    /\ sub_at[2] = tail("/ws")
    /\ wsout[2] = <<>>
    /\ count["/ws"] = count_new + 2

\* the positions of the frames of the messages of one kind sent to a session,
\* in the order in which they were sent
SentPositions(s, kind) ==
    LET sent == SelectSeq(wsout[s], LAMBDA msg : msg.kind = kind)
    IN  [i \in 1..Len(sent) |-> sent[i].pos]

StrictlyIncreasing(seq) == \A i \in 1..(Len(seq) - 1) : seq[i] < seq[i + 1]

\* C22: the frames a session has been sent, lagged or not, are frames of the
\* published sequence of its path, published after it subscribed, in strictly
\* increasing publish order (so none is sent twice), each as the text and the
\* binary message of that frame, and none is later than its read position (so
\* what it is sent next, also after a lag signal, is later than all of them).
C22_NoDuplicationAcrossLag ==
    \A s \in Sessions :
        Attached(s) =>
            LET texts == SentPositions(s, "text")
            IN  /\ SentPositions(s, "binary") = texts
                /\ Len(wsout[s]) = 2 * Len(texts)
                /\ StrictlyIncreasing(texts)
                /\ \A i \in 1..Len(texts) :
                      /\ sub_at[s] < texts[i]
                      /\ texts[i] <= next[s]
                      /\ next[s] <= tail(spath[s])
                      /\ wire(spath[s], wsout[s][2 * i - 1])
                            = text(to_string(published[spath[s]][texts[i]].metadata))
                      /\ wire(spath[s], wsout[s][2 * i])
                            = binary(published[spath[s]][texts[i]].data)

\* session 1 was sent the first frame, has then read the lag signal, and has
\* been sent the third frame: the second was lost
C22_Witness ==
    /\ Attached(1)
    /\ lags[1] = 1
    /\ SentPositions(1, "text") = <<1, 3>>

====
